---- MODULE Spec2Model ----
(***************************************************************************)
(* Model of the alarm summary widget of typhos (src/typhos/alarm.py):      *)
(* TyphosAlarmBase tracks one PyDMChannel per signal address of the        *)
(* devices added to it, records each address's connection and severity     *)
(* as the channels' slots are called, and reduces them to alarm_summary.   *)
(* create_suite of the command line (src/typhos/cli.py) is modelled as a   *)
(* function of the device list it is given.                                *)
(***************************************************************************)
EXTENDS Integers, Sequences, FiniteSets, TLC

(* ------------------------------------------------------------------ *)
(* Bounds of the model                                                  *)
(* ------------------------------------------------------------------ *)

\* PyDMChannel objects created over a run (channel ids are 1..MaxChannels).
MaxChannels == 2

\* Entries of TyphosObject.devices (add_device calls over a run).
MaxDevices == 2

\* Callbacks still enqueued for the channels clear_all_alarm_configs
\* disconnects, over all their addresses.
MaxStale == 1

\* A severity value outside AlarmLevel's severities that a channel may hand
\* to the severity slot.
UndefinedSeverity == 5

\* Entries of the device list given to create_suite.
MaxEntries == 3

(* ------------------------------------------------------------------ *)
(* Program constants                                                    *)
(* ------------------------------------------------------------------ *)

\* class KindLevel
HINTED == 0
NORMAL == 1
CONFIG == 2
OMITTED_LEVEL == 3

KindLevels == {HINTED, NORMAL, CONFIG, OMITTED_LEVEL}

\* class AlarmLevel
NO_ALARM == 0
MINOR == 1
MAJOR == 2
INVALID == 3
DISCONNECTED == 4

AlarmLevels == {NO_ALARM, MINOR, MAJOR, INVALID, DISCONNECTED}

\* ophyd.device.Kind, an IntFlag: omitted = 0, normal = 1, config = 2,
\* hinted = 5 (normal with the hinted bit).
Kind_omitted == 0
Kind_normal == 1
Kind_config == 2
Kind_hinted == 5

(* ------------------------------------------------------------------ *)
(* The devices of the runs: a name and the signals of the device tree,  *)
(* each with the address channel_from_signal gives it and its kind.     *)
(* d1 and d2 share the address "A".                                     *)
(* ------------------------------------------------------------------ *)

Addresses == {"A", "B"}

DeviceNames == {"d1", "d2"}

DeviceSignals(device) ==
    CASE device = "d1" -> << [addr |-> "A", kind |-> Kind_hinted],
                             [addr |-> "B", kind |-> Kind_config] >>
      [] device = "d2" -> << [addr |-> "A", kind |-> Kind_normal] >>
      [] device = "d3" -> << [addr |-> "X", kind |-> Kind_hinted],
                             [addr |-> "Y", kind |-> Kind_hinted],
                             [addr |-> "Z", kind |-> Kind_hinted] >>

\* The device of the three-signal run, its addresses and the severity each
\* of its channels delivers.
E2EDevice == "d3"

E2EAddresses == {"X", "Y", "Z"}

E2ESeverity == [a \in E2EAddresses |-> IF a = "Z" THEN MINOR ELSE NO_ALARM]

SeverityInputs == {NO_ALARM, MINOR, MAJOR, INVALID, UndefinedSeverity}

(* ------------------------------------------------------------------ *)
(* Helpers for Python dicts (functions on a finite key set) and lists   *)
(* ------------------------------------------------------------------ *)

EmptyDict == [k \in {} |-> 0]

Put(d, k, v) == [x \in (DOMAIN d) \cup {k} |-> IF x = k THEN v ELSE d[x]]

Values(d) == {d[k] : k \in DOMAIN d}

RECURSIVE SetMax(_)
SetMax(S) ==
    LET x == CHOOSE y \in S : TRUE
    IN  IF S = {x} THEN x
        ELSE LET m == SetMax(S \ {x}) IN IF x > m THEN x ELSE m

(* ------------------------------------------------------------------ *)
(* State                                                                *)
(* ------------------------------------------------------------------ *)

VARIABLES
    kind_level,       \* self._kind_level
    addr_connected,   \* self.addr_connected: address -> bool
    addr_severity,    \* self.addr_severity: address -> severity
    addr_channels,    \* self.addr_channels: address -> channel id
    device_channels,  \* self.device_channels: device name -> list of channel ids
    alarm_summary,    \* self.alarm_summary
    devices,          \* self.devices (TyphosObject): list of device names
    ch_address,       \* the PyDMChannel objects created so far: id -> address
    open_channels,    \* ids of the channels connect()ed and not disconnect()ed
    stale,            \* callbacks still enqueued for closed channels: the
                      \* addresses they are for and how many are left
    color,            \* the brush colour of the last stylesheet set on the widget
    emitted,          \* values alarm_changed emitted during the last operation
    last_notified,    \* value of the latest alarm_changed emission, -1 if none
    raised,           \* exception the last operation ended with, "none" if none
    slot_error,       \* set_alarm_color raised inside the last emission
    last_op,          \* the last operation and its arguments
    rescope,          \* the kind-level change under way, for the rescope claims
    cli_args,         \* create_suite: the device list and whether happi is there
    cli_result        \* create_suite: what the call returned or raised

vars == << kind_level, addr_connected, addr_severity, addr_channels,
           device_channels, alarm_summary, devices, ch_address,
           open_channels, stale, color, emitted, last_notified, raised,
           slot_error, last_op, rescope, cli_args, cli_result >>

(* ------------------------------------------------------------------ *)
(* KIND_FILTERS and the signals of a device in scope at a kind level    *)
(* ------------------------------------------------------------------ *)

\* A faulty KIND_FILTERS: the NORMAL filter without Kind.hinted.
KIND_FILTERS_normal_only(level, kind) ==
    CASE level = HINTED        -> kind = Kind_hinted
      [] level = NORMAL        -> kind = Kind_normal
      [] level = CONFIG        -> kind # Kind_omitted
      [] level = OMITTED_LEVEL -> TRUE

\* KIND_FILTERS[level](walk), on the kind of walk.item.
KIND_FILTERS(level, kind) ==
    CASE level = HINTED        -> kind = Kind_hinted
      [] level = NORMAL        -> kind \in {Kind_hinted, Kind_normal}
      [] level = CONFIG        -> kind # Kind_omitted
      [] level = OMITTED_LEVEL -> TRUE

\* get_all_signals_from_device(device, filter_by=KIND_FILTERS[level]):
\* the signals of the device tree the filter accepts, in tree order.
get_all_signals_from_device(device, level) ==
    SelectSeq(DeviceSignals(device), LAMBDA sig : KIND_FILTERS(level, sig.kind))

\* channel_from_signal(sig): the address of the signal's channel.
channel_from_signal(sig) == sig.addr

\* channel_addrs of setup_alarm_config.
channel_addrs(device, level) ==
    LET sigs == get_all_signals_from_device(device, level)
    IN  [i \in 1 .. Len(sigs) |-> channel_from_signal(sigs[i])]

(* ------------------------------------------------------------------ *)
(* update_current_alarm and the indicator                               *)
(* ------------------------------------------------------------------ *)

\* all(self.addr_connected.values()); all() of no values is True.
all_connected(conn) == \A a \in DOMAIN conn : conn[a]

RECURSIVE SetMin(_)
SetMin(S) ==
    LET x == CHOOSE y \in S : TRUE
    IN  IF S = {x} THEN x
        ELSE LET m == SetMin(S \ {x}) IN IF x < m THEN x ELSE m

\* A faulty max_severity: min() where the code calls max().
min_severity(sev) == SetMin(Values(sev))

\* max(self.addr_severity.values()), of a non-empty dict.
max_severity(sev) == SetMax(Values(sev))

\* max() of an empty sequence raises ValueError: every recorded connection
\* is true (or none is recorded) and no severity is recorded.
max_raises(conn, sev) == all_connected(conn) /\ DOMAIN sev = {}

\* A faulty new_alarm: the connection states are not looked at.
new_alarm_severity_only(conn, sev) == max_severity(sev)

\* new_alarm of update_current_alarm, when max() does not raise.
new_alarm(conn, sev) ==
    IF ~ all_connected(conn) THEN DISCONNECTED ELSE max_severity(sev)

\* A faulty emissions: the emit without the comparison guarding it.
emissions_always(new, summary) == << new >>

\* The values update_current_alarm hands to alarm_changed.emit.
emissions(new, summary) == IF new # summary THEN << new >> ELSE << >>

\* A faulty indicator_stylesheet: the brushes of MINOR and MAJOR exchanged.
indicator_stylesheet_swapped(alarm) ==
    CASE alarm = DISCONNECTED -> "white"
      [] alarm = NO_ALARM     -> "green"
      [] alarm = MINOR        -> "red"
      [] alarm = MAJOR        -> "yellow"
      [] alarm = INVALID      -> "magenta"
      [] OTHER                -> "ValueError"

\* indicator_stylesheet: the rgba brush of the stylesheet, or ValueError.
indicator_stylesheet(alarm) ==
    CASE alarm = DISCONNECTED -> "white"
      [] alarm = NO_ALARM     -> "green"
      [] alarm = MINOR        -> "yellow"
      [] alarm = MAJOR        -> "red"
      [] alarm = INVALID      -> "magenta"
      [] OTHER                -> "ValueError"

\* set_alarm_color, the slot connected to alarm_changed in __init__: the
\* colour after the emission of alarm_level. An exception raised in the slot
\* does not unwind into emit(); the stylesheet is then left as it was.
set_alarm_color(alarm_level, col) ==
    IF indicator_stylesheet(alarm_level) = "ValueError"
    THEN col
    ELSE indicator_stylesheet(alarm_level)

\* update_current_alarm on the dicts conn and sev, the stored summary and
\* the current colour: what it raises, stores, emits and displays.
\* summary_at_emit: self.alarm_summary while the slots of alarm_changed run;
\* the emit comes before the assignment of the new value.
update_current_alarm(conn, sev, summary, col) ==
    IF max_raises(conn, sev)
    THEN [ raised        |-> "ValueError",
           alarm_summary |-> summary,
           emitted       |-> << >>,
           color         |-> col,
           slot_error    |-> FALSE,
           summary_at_emit |-> summary ]
    ELSE LET new == new_alarm(conn, sev)
             em  == emissions(new, summary)
         IN  [ raised        |-> "none",
               alarm_summary |-> new,
               emitted       |-> em,
               color         |-> IF em = << >> THEN col
                                 ELSE set_alarm_color(em[1], col),
               slot_error    |-> em # << >>
                                 /\ indicator_stylesheet(em[1]) = "ValueError",
               summary_at_emit |-> summary ]

(* ------------------------------------------------------------------ *)
(* clear_all_alarm_configs and setup_alarm_config                       *)
(* ------------------------------------------------------------------ *)

\* The dicts and the open channels after clear_all_alarm_configs: every
\* channel in addr_channels is disconnected, the four dicts are emptied.
clear_all_alarm_configs ==
    [ addr_channels   |-> EmptyDict,
      addr_connected  |-> EmptyDict,
      addr_severity   |-> EmptyDict,
      device_channels |-> EmptyDict,
      open_channels   |-> open_channels \ Values(addr_channels) ]

\* The body of the loop of setup_alarm_config for the channel ch at address
\* addr: register it, mark it disconnected and INVALID, connect it.
setup_channel(st, ch, addr) ==
    [ addr_channels  |-> Put(st.addr_channels, addr, ch),
      addr_connected |-> Put(st.addr_connected, addr, FALSE),
      addr_severity  |-> Put(st.addr_severity, addr, INVALID),
      open_channels  |-> st.open_channels \cup {ch} ]

\* for ch in channels: ..., over the channels first, first + 1, ... at addrs.
RECURSIVE setup_channels(_, _, _)
setup_channels(st, first, addrs) ==
    IF addrs = << >> THEN st
    ELSE setup_channels(setup_channel(st, first, Head(addrs)),
                        first + 1, Tail(addrs))

\* setup_alarm_config(device) at the current kind level: one new PyDMChannel
\* per address in scope, recorded for the device and set up in order.
setup_alarm_config(device) ==
    LET addrs == channel_addrs(device, kind_level)
        first == Len(ch_address) + 1
        ids   == [i \in 1 .. Len(addrs) |-> first + i - 1]
        st    == setup_channels(
                     [ addr_channels  |-> addr_channels,
                       addr_connected |-> addr_connected,
                       addr_severity  |-> addr_severity,
                       open_channels  |-> open_channels ],
                     first, addrs)
    IN  [ addr_channels   |-> st.addr_channels,
          addr_connected  |-> st.addr_connected,
          addr_severity   |-> st.addr_severity,
          open_channels   |-> st.open_channels,
          device_channels |-> Put(device_channels, device, ids),
          ch_address      |-> ch_address \o addrs ]

\* setup_alarm_config(device) when ch.connect() raises for the k-th channel
\* of the loop: the channels before it are set up; the k-th is registered,
\* marked disconnected and INVALID, and not connected; the exception leaves
\* the loop, so the channels after it are created and recorded for the
\* device only.
setup_alarm_config_connect_raises(device, k) ==
    LET addrs == channel_addrs(device, kind_level)
        first == Len(ch_address) + 1
        ids   == [i \in 1 .. Len(addrs) |-> first + i - 1]
        st    == setup_channels(
                     [ addr_channels  |-> addr_channels,
                       addr_connected |-> addr_connected,
                       addr_severity  |-> addr_severity,
                       open_channels  |-> open_channels ],
                     first, SubSeq(addrs, 1, k - 1))
        reg   == setup_channel(st, ids[k], addrs[k])
    IN  [ addr_channels   |-> reg.addr_channels,
          addr_connected  |-> reg.addr_connected,
          addr_severity   |-> reg.addr_severity,
          open_channels   |-> st.open_channels,
          device_channels |-> Put(device_channels, device, ids),
          ch_address      |-> ch_address \o addrs ]

\* Addresses with a channel that is connected and not disconnected.
OpenAddresses == {ch_address[c] : c \in open_channels}

\* The addresses in scope of the attached devices at a kind level.
Scope(devs, level) ==
    UNION { {channel_addrs(devs[i], level)[j] :
                 j \in 1 .. Len(channel_addrs(devs[i], level))} :
            i \in 1 .. Len(devs) }

(* ------------------------------------------------------------------ *)
(* create_suite, create_devices and suite_from_devices (cli.py)         *)
(* ------------------------------------------------------------------ *)

\* An entry of the device list: a class entry "klass[{...}]" (the regex of
\* create_devices matches) or a happi name, and whether instantiating the
\* class, or happi_client.load_device, returns a device or raises.
CliEntries == [form : {"class", "happi"}, loads : BOOLEAN]

\* The arguments of create_suite: the list, and whether _create_happi_client
\* returns a client. fake_devices keeps its default, False.
CliInputs ==
    [ devices : UNION {[1 .. n -> CliEntries] : n \in 0 .. MaxEntries},
      happi : BOOLEAN ]

NoArgs == [devices |-> << >>, happi |-> FALSE]

NotCalled == [raised |-> "none", returned |-> "not called", suite |-> << >>]

\* The body of the loop of create_devices for the i-th entry: loaded_devs
\* after it. The device loaded from an entry is named by the entry's index.
create_devices_entry(device, happi_client, i, loaded_devs) ==
    IF device.form = "class"
    THEN IF device.loads THEN Append(loaded_devs, i) ELSE loaded_devs
    ELSE IF ~ happi_client THEN loaded_devs
         ELSE IF device.loads THEN Append(loaded_devs, i) ELSE loaded_devs

\* for device in devices_arg: ..., from the i-th entry on.
RECURSIVE create_devices_loop(_, _, _, _)
create_devices_loop(devices_arg, happi_client, i, loaded_devs) ==
    IF i > Len(devices_arg) THEN loaded_devs
    ELSE create_devices_loop(
             devices_arg, happi_client, i + 1,
             create_devices_entry(devices_arg[i], happi_client, i, loaded_devs))

\* create_devices(devices_arg): the list of the devices loaded.
create_devices(devices_arg, happi_client) ==
    create_devices_loop(devices_arg, happi_client, 1, << >>)

\* suite_from_devices(devices): the devices added to the new suite.
suite_from_devices(devs) == devs

\* create_suite(devices): loaded_devs is assigned only when devices is not
\* empty, and is read by the second if before "not devices" is.
create_suite(devs, happi_client) ==
    LET loaded_devs == IF devs # << >>
                       THEN [bound |-> TRUE,
                             value |-> create_devices(devs, happi_client)]
                       ELSE [bound |-> FALSE, value |-> << >>]
    IN  IF ~ loaded_devs.bound
        THEN [raised |-> "UnboundLocalError", returned |-> "nothing",
              suite |-> << >>]
        ELSE IF loaded_devs.value # << >> \/ devs = << >>
             THEN [raised |-> "none", returned |-> "suite",
                   suite |-> suite_from_devices(loaded_devs.value)]
             ELSE [raised |-> "none", returned |-> "None", suite |-> << >>]

(* ------------------------------------------------------------------ *)
(* Bookkeeping of the runs (no counterpart in the program's state)      *)
(* ------------------------------------------------------------------ *)

\* No kind-level change is followed. track: the run follows them at all.
NoRescope(track) ==
    [ track |-> track, active |-> FALSE, before |-> -1, flash |-> FALSE,
      scope |-> {}, reported |-> {} ]

\* The channels of the scope of the kind-level change under way have all
\* reported: each is recorded connected and has had its severity slot run,
\* and the last operation was a slot that recomputed the summary.
Settled ==
    /\ rescope.active
    /\ last_op.name \in {"update_connection", "update_severity"}
    /\ raised = "none"
    /\ DOMAIN addr_connected = rescope.scope
    /\ \A a \in rescope.scope : addr_connected[a]
    /\ rescope.scope \subseteq rescope.reported

\* The record of the kind-level change under way after a slot for addr that
\* emitted em; sev tells whether it was the severity slot.
RescopeAfterSlot(em, addr, sev) ==
    IF ~ rescope.active \/ Settled THEN NoRescope(rescope.track)
    ELSE [ rescope EXCEPT
             !.flash = @ \/ (em # << >> /\ em[1] = DISCONNECTED),
             !.reported = IF sev /\ addr \in rescope.scope
                          THEN @ \cup {addr} ELSE @ ]

\* The callbacks enqueued for closed channels that can still be told from
\* those of the open channels: none at an address with an open channel, and
\* no address once none is left.
StaleWhen(pending, open_addrs) ==
    LET rest == pending.addrs \ open_addrs
    IN  IF rest = {} \/ pending.left = 0 THEN [addrs |-> {}, left |-> 0]
        ELSE [addrs |-> rest, left |-> pending.left]

Op(name, flag) == [ name |-> name, flag |-> flag ]

(* ------------------------------------------------------------------ *)
(* Init: the state __init__ leaves                                      *)
(* ------------------------------------------------------------------ *)

Init ==
    /\ kind_level = HINTED
    /\ addr_connected = EmptyDict
    /\ addr_severity = EmptyDict
    /\ addr_channels = EmptyDict
    /\ device_channels = EmptyDict
    /\ alarm_summary = DISCONNECTED
    /\ devices = << >>
    /\ ch_address = << >>
    /\ open_channels = {}
    /\ stale = [addrs |-> {}, left |-> 0]
    /\ color = "unset"
    /\ emitted = << >>
    /\ last_notified = -1
    /\ raised = "none"
    /\ slot_error = FALSE
    /\ last_op = Op("__init__", FALSE)
    /\ rescope = NoRescope(FALSE)
    /\ cli_args = NoArgs
    /\ cli_result = NotCalled

(* ------------------------------------------------------------------ *)
(* Operations                                                           *)
(* ------------------------------------------------------------------ *)

\* add_device(device): TyphosObject.add_device appends the device to
\* self.devices, then setup_alarm_config(device). The summary is not
\* recomputed. last_op.flag: the device was already in self.devices.
add_device(device) ==
    /\ LET st == setup_alarm_config(device)
       IN  /\ devices' = Append(devices, device)
           /\ addr_channels' = st.addr_channels
           /\ addr_connected' = st.addr_connected
           /\ addr_severity' = st.addr_severity
           /\ device_channels' = st.device_channels
           /\ open_channels' = st.open_channels
           /\ ch_address' = st.ch_address
    /\ emitted' = << >>
    /\ raised' = "none"
    /\ slot_error' = FALSE
    /\ last_op' = Op("add_device",
                     \E i \in 1 .. Len(devices) : devices[i] = device)
    /\ rescope' = IF Settled THEN NoRescope(rescope.track) ELSE rescope
    /\ stale' = StaleWhen(stale, {ch_address'[c] : c \in open_channels'})
    /\ UNCHANGED << kind_level, alarm_summary, color, last_notified,
                    cli_args, cli_result >>

\* add_device within the bounds of the run.
AddDevice(device) ==
    /\ Len(devices) < MaxDevices
    /\ Len(ch_address) + Len(channel_addrs(device, kind_level)) <= MaxChannels
    /\ add_device(device)

\* add_device(device) when ch.connect() raises for the k-th channel of the
\* device: the device is in self.devices already, setup_alarm_config stops
\* at that channel and the exception reaches the caller of add_device.
\* last_op.flag: the device was already in self.devices.
AddDeviceConnectRaises(device, k) ==
    /\ Len(devices) < MaxDevices
    /\ Len(ch_address) + Len(channel_addrs(device, kind_level)) <= MaxChannels
    /\ k \in 1 .. Len(channel_addrs(device, kind_level))
    /\ LET st == setup_alarm_config_connect_raises(device, k)
       IN  /\ devices' = Append(devices, device)
           /\ addr_channels' = st.addr_channels
           /\ addr_connected' = st.addr_connected
           /\ addr_severity' = st.addr_severity
           /\ device_channels' = st.device_channels
           /\ open_channels' = st.open_channels
           /\ ch_address' = st.ch_address
    /\ emitted' = << >>
    /\ raised' = "ConnectError"
    /\ slot_error' = FALSE
    /\ last_op' = Op("add_device, connect raises",
                     \E i \in 1 .. Len(devices) : devices[i] = device)
    /\ rescope' = IF Settled THEN NoRescope(rescope.track) ELSE rescope
    /\ stale' = StaleWhen(stale, {ch_address'[c] : c \in open_channels'})
    /\ UNCHANGED << kind_level, alarm_summary, color, last_notified,
                    cli_args, cli_result >>

\* The exception update_alarm_config ends with after clear_all_alarm_configs:
\* the loop calls self.setup_alarms(dev), an attribute the class does not
\* have, for the first device of self.devices.
update_alarm_config_raises(devs) ==
    IF devs = << >> THEN "none" ELSE "AttributeError"

\* kindLevel = kind_level (the property setter): store the level, then
\* update_alarm_config. last_op.flag: the level is the one already set.
SetKindLevel(level) ==
    /\ kind_level' = level
    /\ LET st == clear_all_alarm_configs
           closed == {ch_address[c] : c \in Values(addr_channels)}
       IN  /\ addr_channels' = st.addr_channels
           /\ addr_connected' = st.addr_connected
           /\ addr_severity' = st.addr_severity
           /\ device_channels' = st.device_channels
           /\ open_channels' = st.open_channels
           /\ stale' = StaleWhen(
                          IF closed = {} THEN stale
                          ELSE [addrs |-> stale.addrs \cup closed,
                                left |-> MaxStale],
                          {ch_address[c] : c \in st.open_channels})
    /\ raised' = update_alarm_config_raises(devices)
    /\ emitted' = << >>
    /\ slot_error' = FALSE
    /\ last_op' = Op("kindLevel", level = kind_level)
    /\ rescope' = IF \/ ~ rescope.track
                     \/ level = kind_level
                     \/ Scope(devices, level) = {}
                  THEN NoRescope(rescope.track)
                  ELSE [ track |-> TRUE, active |-> TRUE, before |-> alarm_summary,
                         flash |-> FALSE, scope |-> Scope(devices, level),
                         reported |-> {} ]
    /\ UNCHANGED << alarm_summary, devices, ch_address, color, last_notified,
                    cli_args, cli_result >>

\* A slot for addr can run while a channel at addr is open, or while a
\* callback enqueued before its channel was disconnected is still pending.
Deliverable(addr) == addr \in OpenAddresses \/ addr \in stale.addrs

\* A callback delivered while no channel at addr is open is one of those
\* enqueued before the channel was disconnected.
StaleAfter(addr) ==
    IF addr \in OpenAddresses THEN stale
    ELSE StaleWhen([stale EXCEPT !.left = @ - 1], {})

\* What update_current_alarm leaves, common to both slots.
Recompute(conn, sev, addr, isSeverity) ==
    LET r == update_current_alarm(conn, sev, alarm_summary, color)
    IN  /\ alarm_summary' = r.alarm_summary
        /\ emitted' = r.emitted
        /\ color' = r.color
        /\ raised' = r.raised
        /\ slot_error' = r.slot_error
        /\ last_notified' = IF r.emitted = << >> THEN last_notified
                            ELSE r.emitted[Len(r.emitted)]
        /\ rescope' = RescopeAfterSlot(r.emitted, addr, isSeverity)

\* update_connection(connected, addr), the connection_slot of the channels
\* at addr. last_op.flag: no channel at addr is open (a stale callback).
UpdateConnection(addr, connected) ==
    /\ Deliverable(addr)
    /\ addr_connected' = Put(addr_connected, addr, connected)
    /\ Recompute(addr_connected', addr_severity, addr, FALSE)
    /\ stale' = StaleAfter(addr)
    /\ last_op' = Op("update_connection", addr \notin OpenAddresses)
    /\ UNCHANGED << kind_level, addr_severity, addr_channels, device_channels,
                    devices, ch_address, open_channels, cli_args, cli_result >>

\* update_severity(severity, addr), the severity_slot of the channels at addr.
UpdateSeverity(addr, severity) ==
    /\ Deliverable(addr)
    /\ addr_severity' = Put(addr_severity, addr, severity)
    /\ Recompute(addr_connected, addr_severity', addr, TRUE)
    /\ stale' = StaleAfter(addr)
    /\ last_op' = Op("update_severity", addr \notin OpenAddresses)
    /\ UNCHANGED << kind_level, addr_connected, addr_channels, device_channels,
                    devices, ch_address, open_channels, cli_args, cli_result >>

Next ==
    \/ \E device \in DeviceNames : AddDevice(device)
    \/ \E level \in KindLevels : SetKindLevel(level)
    \/ \E addr \in Addresses, connected \in BOOLEAN :
           UpdateConnection(addr, connected)
    \/ \E addr \in Addresses, severity \in SeverityInputs :
           UpdateSeverity(addr, severity)

Spec == Init /\ [][Next]_vars

\* The same program, with the kind-level changes followed in rescope.
InitRescope ==
    /\ kind_level = HINTED
    /\ addr_connected = EmptyDict
    /\ addr_severity = EmptyDict
    /\ addr_channels = EmptyDict
    /\ device_channels = EmptyDict
    /\ alarm_summary = DISCONNECTED
    /\ devices = << >>
    /\ ch_address = << >>
    /\ open_channels = {}
    /\ stale = [addrs |-> {}, left |-> 0]
    /\ color = "unset"
    /\ emitted = << >>
    /\ last_notified = -1
    /\ raised = "none"
    /\ slot_error = FALSE
    /\ last_op = Op("__init__", FALSE)
    /\ rescope = NoRescope(TRUE)
    /\ cli_args = NoArgs
    /\ cli_result = NotCalled

SpecRescope == InitRescope /\ [][Next]_vars

\* The three-signal run: d3 is added to a new widget at HINTED, each of its
\* channels delivers connected=True and its severity once, in any order;
\* after that a channel may deliver connected=False (and True again).
E2EDelivered ==
    /\ DOMAIN addr_connected = E2EAddresses
    /\ \A a \in E2EAddresses :
           addr_connected[a] /\ addr_severity[a] = E2ESeverity[a]

E2EAttach ==
    /\ devices = << >>
    /\ add_device(E2EDevice)

E2EConnected(addr) ==
    /\ devices # << >>
    /\ ~ addr_connected[addr]
    /\ UpdateConnection(addr, TRUE)

E2ESeverityEvent(addr) ==
    /\ devices # << >>
    /\ addr_severity[addr] = INVALID
    /\ UpdateSeverity(addr, E2ESeverity[addr])

E2EDisconnected(addr) ==
    /\ E2EDelivered
    /\ UpdateConnection(addr, FALSE)

NextE2E ==
    \/ E2EAttach
    \/ \E addr \in E2EAddresses : E2EConnected(addr)
    \/ \E addr \in E2EAddresses : E2ESeverityEvent(addr)
    \/ \E addr \in E2EAddresses : E2EDisconnected(addr)

SpecE2E == Init /\ [][NextE2E]_vars

\* The command line: create_suite called once on a device list.
InitCli ==
    /\ kind_level = HINTED
    /\ addr_connected = EmptyDict
    /\ addr_severity = EmptyDict
    /\ addr_channels = EmptyDict
    /\ device_channels = EmptyDict
    /\ alarm_summary = DISCONNECTED
    /\ devices = << >>
    /\ ch_address = << >>
    /\ open_channels = {}
    /\ stale = [addrs |-> {}, left |-> 0]
    /\ color = "unset"
    /\ emitted = << >>
    /\ last_notified = -1
    /\ raised = "none"
    /\ slot_error = FALSE
    /\ last_op = Op("__init__", FALSE)
    /\ rescope = NoRescope(FALSE)
    /\ cli_args \in CliInputs
    /\ cli_result = NotCalled

CreateSuite ==
    /\ cli_result = NotCalled
    /\ cli_result' = create_suite(cli_args.devices, cli_args.happi)
    /\ UNCHANGED << kind_level, addr_connected, addr_severity, addr_channels,
                    device_channels, alarm_summary, devices, ch_address,
                    open_channels, stale, color, emitted, last_notified,
                    raised, slot_error, last_op, rescope, cli_args >>

NextCli == CreateSuite

SpecCli == InitCli /\ [][NextCli]_vars

\* The same program with channels whose connect() can raise.
NextConnect ==
    \/ Next
    \/ \E device \in DeviceNames, k \in 1 .. MaxChannels :
           AddDeviceConnectRaises(device, k)

SpecConnect == Init /\ [][NextConnect]_vars

(* ------------------------------------------------------------------ *)
(* Claims                                                               *)
(* ------------------------------------------------------------------ *)

Slots == {"update_connection", "update_severity"}

Severities == {NO_ALARM, MINOR, MAJOR, INVALID}

\* The addresses add_device and the kind-level setter track.
Tracked == DOMAIN addr_channels

\* The channels open at an address.
OpenAt(a) == {c \in open_channels : ch_address[c] = a}

\* C1: between operations the stored summary agrees with the tracked
\* channel states: Disconnected if a tracked address is not connected,
\* otherwise the maximum severity of the tracked addresses.
C1_SummaryAgreesWithChannels ==
    Tracked # {} =>
        alarm_summary =
            IF \E a \in Tracked : ~ addr_connected[a]
            THEN DISCONNECTED
            ELSE SetMax({addr_severity[a] : a \in Tracked})

\* C2: the value update_current_alarm computes for a non-empty set of
\* channel states is Disconnected if some channel is not connected,
\* whatever the severities, and otherwise the greatest recorded severity
\* under NoAlarm < Minor < Major < Invalid.
C2_ComputedAlarm ==
    ( /\ last_op.name \in Slots
      /\ raised = "none"
      /\ DOMAIN addr_connected = DOMAIN addr_severity )
    => IF \E a \in DOMAIN addr_connected : ~ addr_connected[a]
       THEN alarm_summary = DISCONNECTED
       ELSE (\A a \in DOMAIN addr_severity : addr_severity[a] \in Severities)
            => /\ \E a \in DOMAIN addr_severity :
                     alarm_summary = addr_severity[a]
               /\ \A a \in DOMAIN addr_severity :
                     addr_severity[a] <= alarm_summary

\* C2 witness: a slot ran with both addresses connected, one Minor and one
\* Major, and the summary is Major.
C2_Witness ==
    /\ last_op.name \in Slots
    /\ raised = "none"
    /\ DOMAIN addr_connected = {"A", "B"}
    /\ DOMAIN addr_severity = {"A", "B"}
    /\ addr_connected["A"] /\ addr_connected["B"]
    /\ {addr_severity["A"], addr_severity["B"]} = {MINOR, MAJOR}
    /\ alarm_summary = MAJOR

\* C3: whenever no address is tracked the summary is NoAlarm (and the
\* recompute of an empty tracked set does not raise).
C3_EmptyScopeNoAlarm ==
    Tracked = {} => (alarm_summary = NO_ALARM /\ raised # "ValueError")

\* C4: an execution of update_current_alarm that computes a value emits it
\* exactly once if it differs from the stored summary and not at all if it
\* is equal, and stores it; an emitted value differs from the one emitted
\* before it.
C4_EmitOnChange ==
    [][ (last_op'.name \in Slots /\ raised' = "none")
        => /\ alarm_summary' = new_alarm(addr_connected', addr_severity')
           /\ alarm_summary' # alarm_summary => emitted' = << alarm_summary' >>
           /\ alarm_summary' = alarm_summary => emitted' = << >>
           /\ emitted' # << >> => emitted'[1] # last_notified ]_vars

\* C4 witness: a slot ran, its recompute changed the summary and emitted it
\* once, after an earlier emission of another value.
C4_Witness ==
    /\ last_op.name \in Slots
    /\ raised = "none"
    /\ emitted = << alarm_summary >>
    /\ alarm_summary = MINOR
    /\ color = "yellow"

\* C5: a kind-level change emits at most one notification, and if the
\* summary once the channels of the new scope have reported equals the
\* summary before the change, no Disconnected notification was emitted in
\* between.
C5_AtomicRescope ==
    /\ last_op.name = "kindLevel" => Len(emitted) <= 1
    /\ (Settled /\ alarm_summary = rescope.before) => ~ rescope.flash

\* C6: after a change of the kind level to a different value with devices
\* attached, the operation has completed, the tracked addresses are those in
\* scope of the attached devices at the new level, and the open channels are
\* exactly the tracked ones.
C6_RescopeRebuilds ==
    (last_op.name = "kindLevel" /\ ~ last_op.flag /\ devices # << >>)
    => /\ raised = "none"
       /\ DOMAIN addr_channels = Scope(devices, kind_level)
       /\ DOMAIN addr_connected = Scope(devices, kind_level)
       /\ DOMAIN addr_severity = Scope(devices, kind_level)
       /\ open_channels = Values(addr_channels)

\* C7: setting the kind level to the value it has changes none of the
\* dicts, the summary or the open channels, and emits nothing.
C7_SameLevelNoOp ==
    [][ (last_op'.name = "kindLevel" /\ last_op'.flag)
        => /\ UNCHANGED << addr_channels, addr_connected, addr_severity,
                           device_channels, alarm_summary, open_channels >>
           /\ emitted' = << >> ]_vars

\* C8: add_device of a device that is already attached leaves the tracked
\* addresses, their connection and severity, the open channels and the
\* summary as they were.
C8_IdempotentAttach ==
    [][ (last_op'.name = "add_device" /\ last_op'.flag)
        => /\ DOMAIN addr_channels' = DOMAIN addr_channels
           /\ UNCHANGED << addr_connected, addr_severity, open_channels,
                           alarm_summary >> ]_vars

\* The devices set up since the last clear whose scope at the current kind
\* level holds the address a.
Owners(a) ==
    {d \in DOMAIN device_channels : a \in Scope(<< d >>, kind_level)}

\* C9: when two attached devices resolve to the same address, exactly one
\* channel is open at it.
C9_SharedAddressOneSubscription ==
    \A a \in Addresses :
        Cardinality(Owners(a)) >= 2 => Cardinality(OpenAt(a)) = 1

\* C10: a slot called for an address none of whose channels is open any
\* more creates and changes no channel state, leaves the summary, emits
\* nothing and raises nothing.
C10_StaleCallbackIgnored ==
    [][ (last_op'.name \in Slots /\ last_op'.flag)
        => /\ UNCHANGED << addr_connected, addr_severity, alarm_summary >>
           /\ emitted' = << >>
           /\ raised' = "none" ]_vars

\* The kinds a component can have: ophyd's Kind is a flag enum, so every
\* union of omitted, normal, config and hinted, 0 .. 7.
SignalKinds == Kind_omitted .. (Kind_hinted + Kind_config)

\* Every kind a filter accepts is accepted by the filters of the higher
\* kind levels.
KindFiltersNested ==
    \A kind \in SignalKinds : \A t1, t2 \in KindLevels :
        (t1 < t2 /\ KIND_FILTERS(t1, kind)) => KIND_FILTERS(t2, kind)

\* The addresses a device resolves to at a kind level are among those it
\* resolves to at the higher levels.
ScopesNested ==
    \A d \in DeviceNames \cup {E2EDevice} : \A t1, t2 \in KindLevels :
        t1 < t2 => Scope(<< d >>, t1) \subseteq Scope(<< d >>, t2)

\* C11: a kind accepted by the filter of a kind level is accepted by the
\* filter of every higher level, so the addresses a device resolves to at a
\* level are among those it resolves to at a higher level.
C11_TierNesting ==
    /\ KindFiltersNested
    /\ ScopesNested
    /\ \A d \in DOMAIN device_channels :
           Scope(<< d >>, HINTED) \subseteq Tracked

\* C11 witness: d1 was set up at the CONFIG level and tracks B beside the
\* address A it resolves to at HINTED.
C11_Witness ==
    /\ kind_level = CONFIG
    /\ last_op.name = "add_device"
    /\ DOMAIN device_channels = {"d1"}
    /\ Tracked = {"A", "B"}
    /\ Scope(<< "d1" >>, HINTED) = {"A"}

\* The colour the indicator is to show for an alarm level.
ColorOf(alarm) ==
    CASE alarm = DISCONNECTED -> "white"
      [] alarm = NO_ALARM     -> "green"
      [] alarm = MINOR        -> "yellow"
      [] alarm = MAJOR        -> "red"
      [] alarm = INVALID      -> "magenta"
      [] OTHER                -> "none"

\* C12: an emission of one of the five alarm levels leaves the indicator
\* with white, green, yellow, red or magenta for Disconnected, NoAlarm,
\* Minor, Major, Invalid, and the mapping gives every level a colour and no
\* two levels the same one.
C12_ColorMapping ==
    /\ (emitted # << >> /\ emitted[1] \in AlarmLevels)
           => color = ColorOf(emitted[1])
    /\ \A a \in AlarmLevels : indicator_stylesheet(a) = ColorOf(a)
    /\ \A a, b \in AlarmLevels :
           indicator_stylesheet(a) = indicator_stylesheet(b) => a = b

\* C12 witness: the slot emitted Major and the indicator is red.
C12_Witness ==
    /\ last_op.name \in Slots
    /\ emitted = << MAJOR >>
    /\ color = "red"

\* C13: the stored summary is always one of the five alarm levels (a
\* severity outside the enum counts as Invalid) and the colour update of
\* the indicator never raises.
C13_UndefinedSeverityClamped ==
    /\ alarm_summary \in AlarmLevels
    /\ ~ slot_error


\* C14: when connect() fails for one address of a device being added, the
\* call does not raise, every address of the device in scope is registered,
\* every one but the failing address has an open channel, and the failing
\* address is recorded as not connected.
C14_ConnectFailureIsolated ==
    last_op.name = "add_device, connect raises" =>
        LET scope == Scope(<< devices[Len(devices)] >>, kind_level)
        IN  /\ raised = "none"
            /\ scope \subseteq Tracked
            /\ Cardinality({a \in scope : OpenAt(a) = {}}) <= 1
            /\ \A a \in scope \cap Tracked :
                   OpenAt(a) = {} => ~ addr_connected[a]

\* C15: in the three-signal run the summary is Disconnected after the
\* device is added and as long as a channel is not connected; once the
\* three connections and the severities NoAlarm, NoAlarm, Minor are
\* delivered, in any order, it is Minor and the indicator yellow; when a
\* channel then disconnects it is Disconnected and the indicator white.
C15_ThreeSignalRun ==
    /\ last_op.name = "add_device" => alarm_summary = DISCONNECTED
    /\ (\E a \in DOMAIN addr_connected : ~ addr_connected[a])
           => alarm_summary = DISCONNECTED
    /\ E2EDelivered => (alarm_summary = MINOR /\ color = "yellow")
    /\ (last_notified # -1 /\ \E a \in DOMAIN addr_connected : ~ addr_connected[a])
           => color = "white"

\* C15 witness: after the six events a channel has disconnected; the
\* summary went to Disconnected and the indicator is white.
C15_Witness ==
    /\ last_op.name = "update_connection"
    /\ \A a \in E2EAddresses : addr_severity[a] = E2ESeverity[a]
    /\ Cardinality({a \in E2EAddresses : ~ addr_connected[a]}) = 1
    /\ emitted = << DISCONNECTED >>
    /\ alarm_summary = DISCONNECTED
    /\ color = "white"

\* C16: the three per-address dicts have the same keys, and the channels
\* that are connected and not disconnected are exactly the values of
\* addr_channels: one tracked state per open subscription.
C16_OneStatePerSubscription ==
    /\ DOMAIN addr_connected = DOMAIN addr_channels
    /\ DOMAIN addr_severity = DOMAIN addr_channels
    /\ open_channels = Values(addr_channels)

\* C17: an add_device that ends normally, of a device not yet attached,
\* opens no further channel at an address that already had one and leaves
\* the recorded connection and severity of the tracked addresses as they were.
C17_AttachLeavesTrackedAlone ==
    [][ (last_op'.name = "add_device" /\ ~ last_op'.flag)
        => \A a \in Tracked :
              /\ a \in DOMAIN addr_connected /\ a \in DOMAIN addr_severity
                     => /\ a \in DOMAIN addr_connected'
                        /\ a \in DOMAIN addr_severity'
                        /\ addr_connected'[a] = addr_connected[a]
                        /\ addr_severity'[a] = addr_severity[a]
              /\ OpenAt(a) # {}
                     => {c \in open_channels' : ch_address'[c] = a} = OpenAt(a)
      ]_vars

\* C18: while the slots connected to alarm_changed run, the stored
\* alarm_summary is already the value the signal carries.
C18_StoredBeforeNotified ==
    [][ last_op'.name \in Slots
        => LET r == update_current_alarm(addr_connected', addr_severity',
                                         alarm_summary, color)
           IN  r.emitted # << >> => r.summary_at_emit = r.emitted[1]
      ]_vars

\* C19: once alarm_changed has been emitted, the last colour set on the
\* indicator is the colour of the stored alarm_summary, whether or not the
\* last operation ended with an exception.
C19_ColorFollowsSummary ==
    last_notified # -1 => color = ColorOf(alarm_summary)

\* The entries of a device list that load, by index, each taken alone.
Loadable(args) ==
    {i \in 1 .. Len(args.devices) :
        /\ args.devices[i].loads
        /\ args.devices[i].form = "happi" => args.happi}

\* C20: create_suite raises for no device list; it returns a suite of no
\* devices for the empty list, a suite of exactly the entries that load
\* (whatever fails before them) when one does, and None when none does.
C20_CreateSuiteTotal ==
    cli_result # NotCalled =>
        /\ cli_result.raised = "none"
        /\ cli_args.devices = << >>
               => (cli_result.returned = "suite" /\ cli_result.suite = << >>)
        /\ Loadable(cli_args) # {}
               => /\ cli_result.returned = "suite"
                  /\ {cli_result.suite[j] : j \in 1 .. Len(cli_result.suite)}
                         = Loadable(cli_args)
        /\ (cli_args.devices # << >> /\ Loadable(cli_args) = {})
               => cli_result.returned = "None"
====
